---- MODULE Spec2Model ----
(***************************************************************************)
(* Resilience gate of the bulkhead demos: the Bulkhead class (bounded      *)
(* concurrency with a FIFO wait queue) and the CircuitBreaker class that   *)
(* wraps it in the combined gateway.                                       *)
(*                                                                         *)
(* JavaScript runs one job at a time.  An async function runs             *)
(* synchronously up to its first await; what follows the await runs as a   *)
(* later job.  Every action below is one such job: the synchronous part of *)
(* a handler, or the continuation after one await.  Jobs of different      *)
(* calls interleave freely, except that the continuations of waiters woken *)
(* by resolve() run in the order in which they were woken (the promise job *)
(* queue is FIFO).                                                         *)
(*                                                                         *)
(* The values of the response-time samples and of the timestamps logged    *)
(* with a state change are read by no code but the metrics endpoint; the   *)
(* model keeps how many samples were pushed and which states were logged.  *)
(***************************************************************************)
EXTENDS Integers, Sequences, FiniteSets, TLC

\* ------------------------------------------------------------------ bounds
MaxCalls == 5            \* requests sent to the bulkhead gateway in one behaviour
MaxGatedCalls == 4       \* requests sent to the combined gateway in one behaviour
MaxTime == 2             \* the clock stops advancing here
MaxLiveCalls == 4        \* requests in one behaviour of the fair specification
MaxUserCalls == 3        \* requests sent to the opossum-based gateway in one behaviour
MaxRequests == 3         \* requests in one behaviour when both endpoints are called
MaxBothCalls == 4        \* requests in one behaviour of the two-endpoint bulkhead gateway
MaxTestRequests == 2     \* requests the load test sends to each endpoint

\* the configurations the gates are built with, scaled down from the gateways'
\* Bulkhead('slow-service', 5, 10) and CircuitBreaker('slow-service', 3, 20000);
\* one clock tick is one reset timeout
ConcurrencyLimits == {1, 2}
QueueLimits == {0, 1, 2}
GatedQueueLimits == {0, 1}
Thresholds == {1, 2}
ResetTimeouts == {1}

Calls == 1..MaxCalls
FastCalls == 1..MaxRequests
UserCalls == 1..MaxUserCalls

VARIABLES
  now,                \* Date.now()
  pos,                \* pos[c]: where call c stands in its handler
  outcome,            \* outcome[c]: result or error call c carries while it returns
  response,           \* the status of the last HTTP response sent (0: none yet)
  trial,              \* history: the call that last moved the breaker to HALF_OPEN (0: none)
  \* Bulkhead
  maxConcurrent, maxQueue,
  activeRequests,
  queuedRequests,     \* the resolve callbacks, named by the call that waits on each
  woken,              \* waiters whose promise is resolved, continuation not yet run
  metrics,            \* the counters; responseTimes is the number of samples pushed,
                      \* averageResponseTime the number of samples it was computed from
  \* CircuitBreaker
  failureThreshold, timeout,
  state, failureCount, nextAttempt, cbMetrics,
  \* gateway-with-bulkhead.js aggregate counters
  allMetrics,
  \* the fast-service resource of the combined gateway
  fastPos,            \* fastPos[f]: where fast-data call f stands in its handler
  fastOutcome,        \* fastOutcome[f]: result or error call f carries while it returns
  fastBulkhead,       \* the fastBulkhead object; woken as above
  fastCircuitBreaker, \* the fastCircuitBreaker object
  \* callers of the bulkhead that gave up
  cancelled,          \* the queued calls whose client stopped waiting
  \* the opossum-based gateway
  userBreaker,        \* the opossum breaker of User-Service: state, time of opening
  userPos,            \* userPos[u]: where GET /users/:id request u stands
  userFire,           \* userFire[u]: how userBreaker.fire() settled for request u
  userResponse,       \* the last HTTP response sent: status and body
  httpCalls,          \* the axios calls made to User-Service
  \* the load-test script
  tester              \* the LoadTester object, requests in flight, lines printed

bhVars == <<maxConcurrent, maxQueue, activeRequests, queuedRequests, woken, metrics>>
cbVars == <<failureThreshold, timeout, state, failureCount, nextAttempt, cbMetrics>>
fastVars == <<fastPos, fastOutcome, fastBulkhead, fastCircuitBreaker>>
opossumVars == <<userBreaker, userPos, userFire, userResponse, httpCalls>>
vars == <<now, pos, outcome, response, trial, bhVars, cbVars, allMetrics, fastVars,
          cancelled, opossumVars, tester>>

\* ---------------------------------------------------------------- Bulkhead
BulkheadInit ==
  /\ activeRequests = 0
  /\ queuedRequests = <<>>
  /\ woken = <<>>
  /\ metrics = [totalRequests |-> 0, successfulRequests |-> 0, failedRequests |-> 0,
                rejectedRequests |-> 0, averageResponseTime |-> 0,
                responseTimes |-> 0]

AtCapacityStrict == activeRequests >= maxConcurrent /\ Len(queuedRequests) > maxQueue

\* the rejection test of execute
AtCapacity == activeRequests >= maxConcurrent /\ Len(queuedRequests) >= maxQueue

\* the queueing test of execute
MustWait == activeRequests >= maxConcurrent

\* Bulkhead.execute from its entry to its first await (or its throw)
BulkheadEnter(c) ==
  /\ UNCHANGED <<maxConcurrent, maxQueue, woken>>
  /\ IF AtCapacity
       THEN /\ metrics' = [metrics EXCEPT !.totalRequests = @ + 1,
                                          !.rejectedRequests = @ + 1]
            /\ pos' = [pos EXCEPT ![c] = "bhReturned"]
            /\ outcome' = [outcome EXCEPT ![c] = "bulkhead"]
            /\ UNCHANGED <<activeRequests, queuedRequests>>
       ELSE /\ metrics' = [metrics EXCEPT !.totalRequests = @ + 1]
            /\ UNCHANGED outcome
            /\ IF MustWait
                 THEN /\ queuedRequests' = Append(queuedRequests, c)
                      /\ pos' = [pos EXCEPT ![c] = "queued"]
                      /\ UNCHANGED activeRequests
                 ELSE /\ activeRequests' = activeRequests + 1
                      /\ pos' = [pos EXCEPT ![c] = "running"]
                      /\ UNCHANGED queuedRequests

\* the continuation of `await new Promise(resolve => queuedRequests.push(resolve))`:
\* the woken waiter takes its slot and starts its operation
BulkheadResume ==
  /\ woken # <<>>
  /\ LET c == Head(woken) IN
       /\ woken' = Tail(woken)
       /\ activeRequests' = activeRequests + 1
       /\ pos' = [pos EXCEPT ![c] = "running"]
  /\ UNCHANGED <<maxConcurrent, maxQueue, queuedRequests, metrics, outcome>>

RecordedSampleInFinally(r) ==
  IF r = "ok"
    THEN [metrics EXCEPT !.successfulRequests = @ + 1,
                         !.responseTimes = @ + 1,
                         !.averageResponseTime = metrics.responseTimes + 1]
    ELSE [metrics EXCEPT !.failedRequests = @ + 1,
                         !.responseTimes = @ + 1,
                         !.averageResponseTime = metrics.responseTimes + 1]

RecordedInTryOnly(r) ==
  IF r = "ok"
    THEN [metrics EXCEPT !.successfulRequests = @ + 1,
                         !.responseTimes = @ + 1,
                         !.averageResponseTime = metrics.responseTimes + 1]
    ELSE metrics

\* the metrics after an operation settled with result r: the try block pushes
\* one response-time sample, the catch block counts the failure
Recorded(r) ==
  IF r = "ok"
    THEN [metrics EXCEPT !.successfulRequests = @ + 1,
                         !.responseTimes = @ + 1,
                         !.averageResponseTime = metrics.responseTimes + 1]
    ELSE [metrics EXCEPT !.failedRequests = @ + 1]

DecrementedInTry(r) == IF r = "ok" THEN activeRequests - 1 ELSE activeRequests

\* activeRequests after the finally block, which runs whatever the result r
Decremented(r) == activeRequests - 1

Pop(q) == <<q[Len(q)], SubSeq(q, 1, Len(q) - 1)>>

ShiftPeek(q) == <<Head(q), q>>

\* queuedRequests.shift() on a queue that is not empty: the element taken, and
\* what is left
Shift(q) == <<Head(q), Tail(q)>>

BulkheadSettleWakeInTry(c, r) ==
  /\ pos[c] = "running"
  /\ metrics' = Recorded(r)
  /\ activeRequests' = Decremented(r)
  /\ IF queuedRequests # <<>> /\ r = "ok"
       THEN LET resolve == Shift(queuedRequests)[1] IN
            /\ woken' = Append(woken, resolve)
            /\ queuedRequests' = Shift(queuedRequests)[2]
            /\ pos' = [pos EXCEPT ![c] = "bhReturned", ![resolve] = "woken"]
       ELSE /\ pos' = [pos EXCEPT ![c] = "bhReturned"]
            /\ UNCHANGED <<queuedRequests, woken>>
  /\ outcome' = [outcome EXCEPT ![c] = r]
  /\ UNCHANGED <<maxConcurrent, maxQueue>>

\* the continuation of `await fn()` in Bulkhead.execute: try or catch, then finally
BulkheadSettle(c, r) ==
  /\ pos[c] = "running"
  /\ metrics' = Recorded(r)
  /\ activeRequests' = Decremented(r)
  /\ IF queuedRequests # <<>>
       THEN LET resolve == Shift(queuedRequests)[1] IN
            /\ woken' = Append(woken, resolve)
            /\ queuedRequests' = Shift(queuedRequests)[2]
            /\ pos' = [pos EXCEPT ![c] = "bhReturned", ![resolve] = "woken"]
       ELSE /\ pos' = [pos EXCEPT ![c] = "bhReturned"]
            /\ UNCHANGED <<queuedRequests, woken>>
  /\ outcome' = [outcome EXCEPT ![c] = r]
  /\ UNCHANGED <<maxConcurrent, maxQueue>>

\* ------------------------------------------------------------------ clock
\* Date.now() advances between jobs
Tick ==
  /\ now < MaxTime
  /\ now' = now + 1
  /\ UNCHANGED <<pos, outcome, response, trial, bhVars, cbVars, allMetrics, fastVars,
                 cancelled, opossumVars, tester>>

\* a request arrives for the next call that has not been issued yet
Arrives(c) == pos[c] = "idle" /\ \A d \in Calls : d < c => pos[d] # "idle"

\* what the downstream operation (the axios call) can end with
OpResults == {"ok", "error", "timeout"}

\* ----------------------------------------- gateway-with-bulkhead.js handlers
\* GET /gateway/slow-process up to the first await: the aggregate counters, then
\* slowServiceBulkhead.execute
SlowProcess(c) ==
  /\ Arrives(c)
  /\ allMetrics' = [allMetrics EXCEPT !.totalRequests = @ + 1,
                                      !.slowServiceRequests = @ + 1]
  /\ BulkheadEnter(c)
  /\ UNCHANGED <<now, response, trial, cbVars, fastVars, cancelled, opossumVars, tester>>

\* a queued request of either gateway resumes
Resume ==
  /\ BulkheadResume
  /\ UNCHANGED <<now, response, trial, cbVars, allMetrics, fastVars,
                 cancelled, opossumVars, tester>>

\* the axios call of a running request settles, in either gateway
OpSettles(c, r) ==
  /\ BulkheadSettle(c, r)
  /\ UNCHANGED <<now, response, trial, cbVars, allMetrics, fastVars,
                 cancelled, opossumVars, tester>>

\* the HTTP status gateway-with-bulkhead.js answers with
BulkheadStatus(o) ==
  CASE o = "ok" -> 200
    [] o = "bulkhead" -> 429
    [] o = "timeout" -> 504
    [] OTHER -> 503

SlowProcessDoneAnyError(c) ==
  /\ pos[c] = "bhReturned"
  /\ allMetrics' =
       IF outcome[c] = "ok"
         THEN [allMetrics EXCEPT !.slowServiceSuccess = @ + 1]
         ELSE [allMetrics EXCEPT !.slowServiceFailure = @ + 1,
                                 !.bulkheadRejections = @ + 1]
  /\ response' = BulkheadStatus(outcome[c])
  /\ pos' = [pos EXCEPT ![c] = "done"]
  /\ outcome' = [outcome EXCEPT ![c] = "none"]
  /\ UNCHANGED <<now, trial, bhVars, cbVars, fastVars, cancelled, opossumVars, tester>>

\* GET /gateway/slow-process after `await slowServiceBulkhead.execute(...)`
SlowProcessDone(c) ==
  /\ pos[c] = "bhReturned"
  /\ allMetrics' =
       IF outcome[c] = "ok"
         THEN [allMetrics EXCEPT !.slowServiceSuccess = @ + 1]
         ELSE IF outcome[c] = "bulkhead"
           THEN [allMetrics EXCEPT !.slowServiceFailure = @ + 1,
                                   !.bulkheadRejections = @ + 1]
           ELSE [allMetrics EXCEPT !.slowServiceFailure = @ + 1]
  /\ response' = BulkheadStatus(outcome[c])
  /\ pos' = [pos EXCEPT ![c] = "done"]
  /\ outcome' = [outcome EXCEPT ![c] = "none"]
  /\ UNCHANGED <<now, trial, bhVars, cbVars, fastVars, cancelled, opossumVars, tester>>

\* ----------------------------------------------------------- CircuitBreaker
\* the breaker object, as one record
Breaker == [failureThreshold |-> failureThreshold, timeout |-> timeout,
            state |-> state, failureCount |-> failureCount,
            nextAttempt |-> nextAttempt, metrics |-> cbMetrics]

CircuitBreakerInit ==
  /\ failureThreshold \in Thresholds
  /\ timeout \in ResetTimeouts
  /\ state = "CLOSED"
  /\ failureCount = 0
  /\ nextAttempt = now
  /\ cbMetrics = [totalAttempts |-> 0, totalFailures |-> 0, totalRejections |-> 0,
                  stateChanges |-> <<>>]

\* changeState(newState): the new state and one stateChanges entry
ChangeState(b, newState) ==
  [b EXCEPT !.state = newState,
            !.metrics.stateChanges = Append(@, newState)]

OnSuccessKeepCount(b) ==
  IF b.state = "HALF_OPEN" THEN ChangeState(b, "CLOSED") ELSE b

OnSuccessClosesAlways(b) ==
  LET reset == [b EXCEPT !.failureCount = 0] IN
  IF b.state # "CLOSED" THEN ChangeState(reset, "CLOSED") ELSE reset

OnSuccessResetsTrialOnly(b) ==
  IF b.state = "HALF_OPEN"
    THEN ChangeState([b EXCEPT !.failureCount = 0], "CLOSED")
    ELSE b

\* onSuccess()
OnSuccess(b) ==
  LET reset == [b EXCEPT !.failureCount = 0] IN
  IF b.state = "HALF_OPEN" THEN ChangeState(reset, "CLOSED") ELSE reset

OnFailureStrict(b) ==
  LET counted == [b EXCEPT !.metrics.totalFailures = @ + 1,
                           !.failureCount = @ + 1] IN
  IF counted.failureCount > b.failureThreshold
    THEN [ChangeState(counted, "OPEN") EXCEPT !.nextAttempt = now + b.timeout]
    ELSE counted

OnFailureUncounted(b) ==
  LET counted == [b EXCEPT !.failureCount = @ + 1] IN
  IF counted.failureCount >= b.failureThreshold
    THEN [ChangeState(counted, "OPEN") EXCEPT !.nextAttempt = now + b.timeout]
    ELSE counted

\* onFailure()
OnFailure(b) ==
  LET counted == [b EXCEPT !.metrics.totalFailures = @ + 1,
                           !.failureCount = @ + 1] IN
  IF counted.failureCount >= b.failureThreshold
    THEN [ChangeState(counted, "OPEN") EXCEPT !.nextAttempt = now + b.timeout]
    ELSE counted

RejectsInclusive(b) == b.state = "OPEN" /\ now <= b.nextAttempt

\* the guard of execute: the circuit is open and the reset timeout has not elapsed
Rejects(b) == b.state = "OPEN" /\ now < b.nextAttempt

RejectedBeforeCount(b) == [b EXCEPT !.metrics.totalRejections = @ + 1]

RejectedInsideTry(b) ==
  OnFailure([b EXCEPT !.metrics.totalAttempts = @ + 1,
                      !.metrics.totalRejections = @ + 1])

\* the breaker after execute threw the circuit-open error
Rejected(b) == [b EXCEPT !.metrics.totalAttempts = @ + 1,
                         !.metrics.totalRejections = @ + 1]

\* the breaker after execute let the call through, just before fn() is called
Allowed(b) ==
  LET counted == [b EXCEPT !.metrics.totalAttempts = @ + 1] IN
  IF b.state = "OPEN" THEN ChangeState(counted, "HALF_OPEN") ELSE counted

\* the breaker's fields take the values of record b
BreakerBecomes(b) ==
  /\ state' = b.state
  /\ failureCount' = b.failureCount
  /\ nextAttempt' = b.nextAttempt
  /\ cbMetrics' = b.metrics
  /\ UNCHANGED <<failureThreshold, timeout>>

\* ------------------------------- combined gateway (bulkhead + circuit breaker)
\* the HTTP status the combined gateway answers with
GatedStatus(o) ==
  CASE o = "ok" -> 200
    [] o = "circuit" -> 503
    [] o = "bulkhead" -> 429
    [] o = "timeout" -> 504
    [] OTHER -> 503

\* GET /gateway/slow-process up to the first await: slowCircuitBreaker.execute,
\* and inside it, unless the circuit rejects, slowBulkhead.execute.  The handler's
\* catch block that answers a circuit-open error touches no gate state and is
\* taken in the same step.
GatedSlowProcess(c) ==
  /\ Arrives(c)
  /\ IF Rejects(Breaker)
       THEN /\ BreakerBecomes(Rejected(Breaker))
            /\ pos' = [pos EXCEPT ![c] = "done"]
            /\ response' = GatedStatus("circuit")
            /\ UNCHANGED <<outcome, bhVars>>
       ELSE /\ BreakerBecomes(Allowed(Breaker))
            /\ BulkheadEnter(c)
            /\ UNCHANGED response
  /\ trial' = IF state = "OPEN" /\ ~Rejects(Breaker) THEN c ELSE trial
  /\ UNCHANGED <<now, allMetrics, fastVars, cancelled, opossumVars, tester>>

CircuitBreakerSettleRetry(c) ==
  /\ pos[c] = "bhReturned"
  /\ IF outcome[c] \in {"error", "timeout"}
       THEN /\ BulkheadEnter(c)
            /\ UNCHANGED <<response, cbVars>>
       ELSE /\ BreakerBecomes(IF outcome[c] = "ok" THEN OnSuccess(Breaker)
                                                   ELSE OnFailure(Breaker))
            /\ response' = GatedStatus(outcome[c])
            /\ pos' = [pos EXCEPT ![c] = "done"]
            /\ outcome' = [outcome EXCEPT ![c] = "none"]
            /\ UNCHANGED bhVars
  /\ UNCHANGED <<now, trial, allMetrics, fastVars, cancelled, opossumVars, tester>>

\* the continuation of `await fn()` in CircuitBreaker.execute: onSuccess or
\* onFailure; then the handler answers, which touches no gate state
CircuitBreakerSettle(c) ==
  /\ pos[c] = "bhReturned"
  /\ BreakerBecomes(IF outcome[c] = "ok" THEN OnSuccess(Breaker) ELSE OnFailure(Breaker))
  /\ response' = GatedStatus(outcome[c])
  /\ pos' = [pos EXCEPT ![c] = "done"]
  /\ outcome' = [outcome EXCEPT ![c] = "none"]
  /\ UNCHANGED <<now, trial, bhVars, allMetrics, fastVars, cancelled, opossumVars, tester>>

\* ------------------------------------- combined gateway: fast-service resource
\* fastBulkhead and fastCircuitBreaker are further instances of the two classes.
\* Each is held in one record; the methods are the ones above, read off the
\* record instead of the slow-service variables.  Scaled down from
\* Bulkhead('fast-service', 20, 50) and CircuitBreaker('fast-service', 5, 20000).
FastLimits == [maxConcurrent |-> 1, maxQueue |-> 1]
FastThresholds == [failureThreshold |-> 1, timeout |-> 1]

\* new Bulkhead(name, maxConcurrent, maxQueue), as one record
NewBulkhead(limits) ==
  [maxConcurrent |-> limits.maxConcurrent, maxQueue |-> limits.maxQueue,
   activeRequests |-> 0, queuedRequests |-> <<>>, woken |-> <<>>,
   metrics |-> [totalRequests |-> 0, successfulRequests |-> 0,
                failedRequests |-> 0, rejectedRequests |-> 0,
                averageResponseTime |-> 0, responseTimes |-> 0]]

\* the objects of the fast resource, its bulkhead built with the given limits
FastObjects(limits) ==
  /\ fastPos = [f \in FastCalls |-> "idle"]
  /\ fastOutcome = [f \in FastCalls |-> "none"]
  /\ fastBulkhead = NewBulkhead(limits)
  /\ fastCircuitBreaker =
       [failureThreshold |-> FastThresholds.failureThreshold,
        timeout |-> FastThresholds.timeout,
        state |-> "CLOSED", failureCount |-> 0, nextAttempt |-> now,
        metrics |-> [totalAttempts |-> 0, totalFailures |-> 0, totalRejections |-> 0,
                     stateChanges |-> <<>>]]

FastInit == FastObjects(FastLimits)

FastBreakerShared == Breaker

\* the breaker the fast-data handler calls execute on
FastBreaker == fastCircuitBreaker

FullOfStrict(bh) ==
  bh.activeRequests >= bh.maxConcurrent /\ Len(bh.queuedRequests) > bh.maxQueue

\* the rejection and queueing tests of execute, on bulkhead object bh
FullOf(bh) ==
  bh.activeRequests >= bh.maxConcurrent /\ Len(bh.queuedRequests) >= bh.maxQueue

BusyOf(bh) == bh.activeRequests >= bh.maxConcurrent

\* fastBulkhead.execute from its entry to its first await (or its throw)
FastBulkheadEnter(f) ==
  LET counted == [fastBulkhead EXCEPT !.metrics.totalRequests = @ + 1] IN
  IF FullOf(fastBulkhead)
    THEN /\ fastBulkhead' = [counted EXCEPT !.metrics.rejectedRequests = @ + 1]
         /\ fastPos' = [fastPos EXCEPT ![f] = "bhReturned"]
         /\ fastOutcome' = [fastOutcome EXCEPT ![f] = "bulkhead"]
    ELSE /\ UNCHANGED fastOutcome
         /\ IF BusyOf(fastBulkhead)
              THEN /\ fastBulkhead' = [counted EXCEPT !.queuedRequests = Append(@, f)]
                   /\ fastPos' = [fastPos EXCEPT ![f] = "queued"]
              ELSE /\ fastBulkhead' = [counted EXCEPT !.activeRequests = @ + 1]
                   /\ fastPos' = [fastPos EXCEPT ![f] = "running"]

\* a request arrives for the next fast-data call that has not been issued yet
FastArrives(f) ==
  fastPos[f] = "idle" /\ \A g \in FastCalls : g < f => fastPos[g] # "idle"

\* GET /gateway/fast-data up to the first await: fastCircuitBreaker.execute, and
\* inside it, unless the circuit rejects, fastBulkhead.execute
FastData(f) ==
  /\ FastArrives(f)
  /\ IF Rejects(FastBreaker)
       THEN /\ fastCircuitBreaker' = Rejected(FastBreaker)
            /\ fastPos' = [fastPos EXCEPT ![f] = "done"]
            /\ response' = GatedStatus("circuit")
            /\ UNCHANGED <<fastOutcome, fastBulkhead>>
       ELSE /\ fastCircuitBreaker' = Allowed(FastBreaker)
            /\ FastBulkheadEnter(f)
            /\ UNCHANGED response
  /\ UNCHANGED <<now, pos, outcome, trial, bhVars, cbVars, allMetrics, cancelled,
                 opossumVars, tester>>

\* the continuation of the queueing await of execute, on fastBulkhead: the woken
\* waiter takes its slot and starts its operation
FastBulkheadResume ==
  /\ fastBulkhead.woken # <<>>
  /\ LET f == Head(fastBulkhead.woken) IN
       /\ fastBulkhead' = [fastBulkhead EXCEPT !.woken = Tail(@),
                                               !.activeRequests = @ + 1]
       /\ fastPos' = [fastPos EXCEPT ![f] = "running"]
  /\ UNCHANGED fastOutcome

\* a queued fast-data request resumes
FastResume ==
  /\ FastBulkheadResume
  /\ UNCHANGED <<now, pos, outcome, response, trial, bhVars, cbVars, allMetrics,
                 cancelled, opossumVars, tester, fastCircuitBreaker>>

\* bulkhead object bh after its operation settled with result r: try, or catch
RecordedOf(bh, r) ==
  IF r = "ok"
    THEN [bh EXCEPT !.metrics.successfulRequests = @ + 1,
                    !.metrics.responseTimes = @ + 1,
                    !.metrics.averageResponseTime = bh.metrics.responseTimes + 1]
    ELSE [bh EXCEPT !.metrics.failedRequests = @ + 1]

\* the continuation of `await fn()` in execute, on fastBulkhead: try or catch,
\* then finally
FastBulkheadSettle(f, r) ==
  /\ fastPos[f] = "running"
  /\ LET released == [RecordedOf(fastBulkhead, r) EXCEPT !.activeRequests = @ - 1]
     IN IF fastBulkhead.queuedRequests # <<>>
          THEN LET resolve == Shift(fastBulkhead.queuedRequests)[1] IN
               /\ fastBulkhead' =
                    [released EXCEPT !.queuedRequests = Shift(@)[2],
                                     !.woken = Append(@, resolve)]
               /\ fastPos' = [fastPos EXCEPT ![f] = "bhReturned", ![resolve] = "woken"]
          ELSE /\ fastBulkhead' = released
               /\ fastPos' = [fastPos EXCEPT ![f] = "bhReturned"]
  /\ fastOutcome' = [fastOutcome EXCEPT ![f] = r]

\* the axios call of a running fast-data request settles
FastOpSettles(f, r) ==
  /\ FastBulkheadSettle(f, r)
  /\ UNCHANGED <<now, pos, outcome, response, trial, bhVars, cbVars, allMetrics,
                 cancelled, opossumVars, tester, fastCircuitBreaker>>

\* GET /gateway/fast-data of gateway-with-bulkhead.js up to the first await: the
\* aggregate counters, then fastServiceBulkhead.execute (the object is kept in
\* fastBulkhead)
FastServiceData(f) ==
  /\ FastArrives(f)
  /\ allMetrics' = [allMetrics EXCEPT !.totalRequests = @ + 1,
                                      !.fastServiceRequests = @ + 1]
  /\ FastBulkheadEnter(f)
  /\ UNCHANGED <<now, pos, outcome, response, trial, bhVars, cbVars,
                 fastCircuitBreaker, cancelled, opossumVars, tester>>

\* GET /gateway/fast-data after `await fastServiceBulkhead.execute(...)`
FastServiceDone(f) ==
  /\ fastPos[f] = "bhReturned"
  /\ allMetrics' =
       IF fastOutcome[f] = "ok"
         THEN [allMetrics EXCEPT !.fastServiceSuccess = @ + 1]
         ELSE IF fastOutcome[f] = "bulkhead"
           THEN [allMetrics EXCEPT !.fastServiceFailure = @ + 1,
                                   !.bulkheadRejections = @ + 1]
           ELSE [allMetrics EXCEPT !.fastServiceFailure = @ + 1]
  /\ response' = BulkheadStatus(fastOutcome[f])
  /\ fastPos' = [fastPos EXCEPT ![f] = "done"]
  /\ fastOutcome' = [fastOutcome EXCEPT ![f] = "none"]
  /\ UNCHANGED <<now, pos, outcome, trial, bhVars, cbVars, fastBulkhead,
                 fastCircuitBreaker, cancelled, opossumVars, tester>>

\* the HTTP status the fast-data handler answers with
FastStatus(o) ==
  CASE o = "ok" -> 200
    [] o = "circuit" -> 503
    [] o = "bulkhead" -> 429
    [] OTHER -> 503

\* the continuation of `await fn()` in fastCircuitBreaker.execute: onSuccess or
\* onFailure; then the handler answers
FastBreakerSettle(f) ==
  /\ fastPos[f] = "bhReturned"
  /\ fastCircuitBreaker' =
       IF fastOutcome[f] = "ok" THEN OnSuccess(FastBreaker) ELSE OnFailure(FastBreaker)
  /\ response' = FastStatus(fastOutcome[f])
  /\ fastPos' = [fastPos EXCEPT ![f] = "done"]
  /\ fastOutcome' = [fastOutcome EXCEPT ![f] = "none"]
  /\ UNCHANGED <<now, pos, outcome, trial, bhVars, cbVars, allMetrics,
                 cancelled, opossumVars, tester, fastBulkhead>>

\* ------------------------------------------------- a queued caller gives up
\* The client of a queued request stops waiting (it closes the connection, or
\* its own timer fires).  The promise the caller awaits has a resolve callback
\* only, kept in queuedRequests; nothing in the class removes an entry except
\* shift() in a finally block, and no handler listens for the client going
\* away: the bulkhead's state stays as it is.
CallerGivesUp(c) ==
  /\ pos[c] = "queued"
  /\ c \notin cancelled
  /\ cancelled' = cancelled \cup {c}
  /\ UNCHANGED <<now, pos, outcome, response, trial, bhVars, cbVars, allMetrics,
                 fastVars, opossumVars, tester>>

\* -------------------------------------------------- opossum-based gateway
\* breakerOptions; one clock tick is one resetTimeout
breakerOptions == [resetTimeout |-> 1]

OpossumInit ==
  /\ userBreaker = [state |-> "closed", openedAt |-> 0]
  /\ userPos = [u \in UserCalls |-> "idle"]
  /\ userFire = [u \in UserCalls |-> "none"]
  /\ userResponse = [status |-> 0, body |-> "none"]
  /\ httpCalls = 0

\* GET /users/:id up to `await userBreaker.fire(...)`.  With the circuit open
\* fire() makes no HTTP call and returns the fallback; otherwise it calls the
\* loader, which awaits axios.get.
GetUser(u) ==
  /\ userPos[u] = "idle"
  /\ \A v \in UserCalls : v < u => userPos[v] # "idle"
  /\ IF userBreaker.state = "open"
       THEN /\ userPos' = [userPos EXCEPT ![u] = "fired"]
            /\ userFire' = [userFire EXCEPT ![u] = "open"]
            /\ UNCHANGED httpCalls
       ELSE /\ userPos' = [userPos EXCEPT ![u] = "loading"]
            /\ httpCalls' = httpCalls + 1
            /\ UNCHANGED userFire
  /\ UNCHANGED <<now, pos, outcome, response, trial, bhVars, cbVars, allMetrics,
                 fastVars, cancelled, tester, userBreaker, userResponse>>

\* what fire() can settle with once the loader was called: "ok" resolves with
\* the response data; a failure (status 500 or above, network error, the
\* breaker's timeout) either resolves with the fallback or rejects with the
\* error, as the library decides
FireResults == {"ok", "failed", "thrown"}

\* the loader of request u settles with result r.  A success of the trial
\* closes a half-open circuit; a failure opens a half-open circuit and, when
\* the library's failure statistics (errorThresholdPercentage) say so, a
\* closed one.
LoaderSettles(u, r, opens) ==
  /\ userPos[u] = "loading"
  /\ userPos' = [userPos EXCEPT ![u] = "fired"]
  /\ userFire' = [userFire EXCEPT ![u] = r]
  /\ userBreaker' =
       IF r = "ok"
         THEN IF userBreaker.state = "halfOpen"
                THEN [userBreaker EXCEPT !.state = "closed"]
                ELSE userBreaker
         ELSE IF userBreaker.state = "halfOpen"
                   \/ (userBreaker.state = "closed" /\ opens)
                THEN [state |-> "open", openedAt |-> now]
                ELSE userBreaker
  /\ UNCHANGED <<now, pos, outcome, response, trial, bhVars, cbVars, allMetrics,
                 fastVars, cancelled, tester, userResponse, httpCalls>>

\* the handler's answer: res.json(result) when fire() resolved (with the data
\* or with the fallback), res.status(503).json(err) when it rejected
UserAnswer(f) ==
  CASE f = "ok" -> [status |-> 200, body |-> "data"]
    [] f = "thrown" -> [status |-> 503, body |-> "error"]
    [] OTHER -> [status |-> 200, body |-> "fallback"]

\* the continuation of `await userBreaker.fire(...)` in GET /users/:id
UserAnswers(u) ==
  /\ userPos[u] = "fired"
  /\ userResponse' = UserAnswer(userFire[u])
  /\ userPos' = [userPos EXCEPT ![u] = "done"]
  /\ UNCHANGED <<now, pos, outcome, response, trial, bhVars, cbVars, allMetrics,
                 fastVars, cancelled, tester, userBreaker, userFire, httpCalls>>

\* resetTimeout after the circuit opened the breaker's timer makes it half-open
HalfOpens ==
  /\ userBreaker.state = "open"
  /\ now >= userBreaker.openedAt + breakerOptions.resetTimeout
  /\ userBreaker' = [userBreaker EXCEPT !.state = "halfOpen"]
  /\ UNCHANGED <<now, pos, outcome, response, trial, bhVars, cbVars, allMetrics,
                 fastVars, cancelled, tester, userPos, userFire, userResponse, httpCalls>>

\* ------------------------------------------------------------- load test
\* strings that `includes` is applied to, as sequences of characters
WithoutBulkheadName == <<"W", "I", "T", "H", "O", "U", "T", " ", "B", "U", "L", "K", "H", "E", "A", "D">>
WithBulkheadName == <<"W", "I", "T", "H", " ", "B", "U", "L", "K", "H", "E", "A", "D">>
WithCircuitBreakerName == <<"W", "I", "T", "H", " ", "C", "I", "R", "C", "U", "I", "T", " ", "B", "R", "E", "A", "K", "E", "R">>
TesterNames == {WithoutBulkheadName, WithBulkheadName, WithCircuitBreakerName}

SlowEndpoint == <<"/", "g", "a", "t", "e", "w", "a", "y", "/", "s", "l", "o", "w", "-", "p", "r", "o", "c", "e", "s", "s">>
FastEndpoint == <<"/", "g", "a", "t", "e", "w", "a", "y", "/", "f", "a", "s", "t", "-", "d", "a", "t", "a">>
Endpoints == {SlowEndpoint, FastEndpoint}

\* String.prototype.includes
Includes(s, part) ==
  \E i \in 0..(Len(s) - Len(part)) : SubSeq(s, i + 1, i + Len(part)) = part

\* how axios.get to the gateway can settle: a 2xx response, an error that
\* carries the gateway's response, or an error with a code and no response
\* (status 0)
Replies ==
  {[status |-> 200, code |-> "none"],
   [status |-> 429, code |-> "ERR_BAD_REQUEST"],
   [status |-> 503, code |-> "ERR_BAD_RESPONSE"],
   [status |-> 504, code |-> "ERR_BAD_RESPONSE"],
   [status |-> 0, code |-> "ECONNABORTED"],
   [status |-> 0, code |-> "ECONNREFUSED"]}

\* new LoadTester(gatewayPort, name); times is the number of samples pushed,
\* phase and sending follow runLoadTest, report holds the lines printAnalysis
\* wrote
NewLoadTester(name) ==
  [name |-> name,
   results |->
     [slowService |-> [success |-> 0, failure |-> 0, timeout |-> 0,
                       rejection |-> 0, times |-> 0],
      fastService |-> [success |-> 0, failure |-> 0, timeout |-> 0,
                       rejection |-> 0, times |-> 0]],
   phase |-> "new",
   sending |-> [slowService |-> 0, fastService |-> 0],
   report |-> {}]

\* the service a request to endpoint is counted under
ServiceOf(endpoint) ==
  IF Includes(endpoint, <<"s", "l", "o", "w">>) THEN "slowService" ELSE "fastService"

\* LoadTester.sendRequest after its axios call settled with reply
SendRequest(t, endpoint, reply) ==
  LET service == ServiceOf(endpoint) IN
  IF reply.status = 200
    THEN [t EXCEPT !.results[service].times = @ + 1,
                   !.results[service].success = @ + 1]
    ELSE IF reply.status = 429
      THEN [t EXCEPT !.results[service].rejection = @ + 1]
      ELSE IF reply.status = 503
        THEN [t EXCEPT !.results[service].failure = @ + 1]
        ELSE IF reply.code = "ECONNABORTED"
          THEN [t EXCEPT !.results[service].timeout = @ + 1]
          ELSE [t EXCEPT !.results[service].failure = @ + 1]

ProblemLine == "PROBLEM: Fast service is being blocked by slow service!"
SuccessLine == "SUCCESS: Fast service remains responsive!"
NoteLine == "NOTE: Some slow requests were rejected"
AdvancedLine == "ADVANCED RESILIENCE:"

\* LoadTester.printAnalysis: the lines it writes below the heading
PrintAnalysis(t) ==
  IF Includes(t.name, <<"W", "I", "T", "H", "O", "U", "T">>)
    THEN IF t.results.fastService.timeout > 0 \/ t.results.fastService.failure > 0
           THEN {ProblemLine}
           ELSE {}
    ELSE IF Includes(t.name, WithBulkheadName)
      THEN (IF t.results.fastService.success = t.results.fastService.times
              THEN {SuccessLine}
              ELSE {})
             \cup (IF t.results.slowService.rejection > 0 THEN {NoteLine} ELSE {})
      ELSE IF Includes(t.name, <<"C", "I", "R", "C", "U", "I", "T", " ", "B", "R", "E", "A", "K", "E", "R">>)
        THEN {AdvancedLine}
        ELSE {}

gatewayVars == <<now, pos, outcome, response, trial, bhVars, cbVars, allMetrics,
                 fastVars, cancelled, opossumVars>>

\* runLoadTest(slowEndpoint, fastEndpoint, slowRequests, fastRequests): the
\* requests are sent
RunLoadTest(slowRequests, fastRequests) ==
  /\ tester.phase = "new"
  /\ tester' = [tester EXCEPT !.phase = "sent",
                              !.sending = [slowService |-> slowRequests,
                                           fastService |-> fastRequests]]
  /\ UNCHANGED gatewayVars

\* the axios call of one of the requests sent to endpoint settles with reply
RequestSettles(endpoint, reply) ==
  /\ tester.phase = "sent"
  /\ tester.sending[ServiceOf(endpoint)] > 0
  /\ tester' = [SendRequest(tester, endpoint, reply)
                  EXCEPT !.sending[ServiceOf(endpoint)] = @ - 1]
  /\ UNCHANGED gatewayVars

\* both Promise.all have resolved: printResults, and in it printAnalysis
PrintResults ==
  /\ tester.phase = "sent"
  /\ tester.sending.slowService = 0 /\ tester.sending.fastService = 0
  /\ tester' = [tester EXCEPT !.phase = "printed", !.report = PrintAnalysis(tester)]
  /\ UNCHANGED gatewayVars

\* ------------------------------------------------------------ specifications
\* no request has been received yet
RequestsInit ==
  /\ now = 0
  /\ pos = [c \in Calls |-> "idle"]
  /\ outcome = [c \in Calls |-> "none"]
  /\ response = 0
  /\ trial = 0
  /\ cancelled = {}
  /\ OpossumInit
  /\ allMetrics = [totalRequests |-> 0, slowServiceRequests |-> 0,
                   fastServiceRequests |-> 0, slowServiceSuccess |-> 0,
                   slowServiceFailure |-> 0, fastServiceSuccess |-> 0,
                   fastServiceFailure |-> 0, bulkheadRejections |-> 0]

\* the load-test script is not running
NoLoadTest == tester = NewLoadTester(WithBulkheadName)

HandlersInit == RequestsInit /\ FastInit /\ NoLoadTest

\* the breaker variables where no breaker is used
NoBreaker ==
  /\ failureThreshold = 1
  /\ timeout = 1
  /\ state = "CLOSED"
  /\ failureCount = 0
  /\ nextAttempt = now
  /\ cbMetrics = [totalAttempts |-> 0, totalFailures |-> 0, totalRejections |-> 0,
                  stateChanges |-> <<>>]

\* gateway-with-bulkhead.js: one bulkhead, no breaker (its variables stay put)
InitBulkhead ==
  /\ HandlersInit
  /\ maxConcurrent \in ConcurrencyLimits
  /\ maxQueue \in QueueLimits
  /\ BulkheadInit
  /\ NoBreaker

NextBulkhead ==
  \/ \E c \in Calls : SlowProcess(c)
  \/ Resume
  \/ \E c \in Calls, r \in OpResults : OpSettles(c, r)
  \/ \E c \in Calls : SlowProcessDone(c)

SpecBulkhead == InitBulkhead /\ [][NextBulkhead]_vars

\* The event loop runs every job that was scheduled: the continuation of a
\* resolved waiter and the continuation of a settled `await`.  The axios calls
\* carry a timeout, so every operation that was started settles.  Nothing
\* obliges a client to send a request.
FairBulkhead ==
  /\ WF_vars(Resume)
  /\ \A c \in Calls : WF_vars(\E r \in OpResults : OpSettles(c, r))
  /\ \A c \in Calls : WF_vars(SlowProcessDone(c))

NextBulkheadLive ==
  \/ \E c \in Calls : c <= MaxLiveCalls /\ SlowProcess(c)
  \/ Resume
  \/ \E c \in Calls, r \in OpResults : OpSettles(c, r)
  \/ \E c \in Calls : SlowProcessDone(c)

SpecBulkheadLive == InitBulkhead /\ [][NextBulkheadLive]_vars /\ FairBulkhead

\* the bulkhead gateway with clients that may stop waiting
NextBulkheadCancel ==
  \/ NextBulkheadLive
  \/ \E c \in Calls : CallerGivesUp(c)

SpecBulkheadCancel == InitBulkhead /\ [][NextBulkheadCancel]_vars

\* the opossum-based gateway, GET /users/:id
NextOpossum ==
  \/ \E u \in UserCalls : GetUser(u)
  \/ \E u \in UserCalls, r \in FireResults, opens \in BOOLEAN : LoaderSettles(u, r, opens)
  \/ \E u \in UserCalls : UserAnswers(u)
  \/ HalfOpens
  \/ Tick

\* the objects of the other gateways exist in other processes; they stay as built
InitOpossum ==
  /\ InitBulkhead
  /\ maxConcurrent = 1
  /\ maxQueue = 0

SpecOpossum == InitOpossum /\ [][NextOpossum]_vars

\* the combined gateway: breaker around bulkhead, with the clock
Init ==
  /\ HandlersInit
  /\ maxConcurrent \in ConcurrencyLimits
  /\ maxQueue \in GatedQueueLimits
  /\ BulkheadInit
  /\ CircuitBreakerInit

Next ==
  \/ \E c \in Calls : c <= MaxGatedCalls /\ GatedSlowProcess(c)
  \/ Resume
  \/ \E c \in Calls, r \in OpResults : OpSettles(c, r)
  \/ \E c \in Calls : CircuitBreakerSettle(c)
  \/ Tick

Spec == Init /\ [][Next]_vars

\* the combined gateway with requests to both of its endpoints
Requests ==
  Cardinality({c \in Calls : pos[c] # "idle"})
    + Cardinality({f \in FastCalls : fastPos[f] # "idle"})

NextIsolation ==
  \/ \E c \in Calls : Requests < MaxRequests /\ GatedSlowProcess(c)
  \/ Resume
  \/ \E c \in Calls, r \in OpResults : OpSettles(c, r)
  \/ \E c \in Calls : CircuitBreakerSettle(c)
  \/ \E f \in FastCalls : Requests < MaxRequests /\ FastData(f)
  \/ FastResume
  \/ \E f \in FastCalls, r \in OpResults : FastOpSettles(f, r)
  \/ \E f \in FastCalls : FastBreakerSettle(f)
  \/ Tick

SpecIsolation == Init /\ [][NextIsolation]_vars

\* gateway-with-bulkhead.js with requests to both of its endpoints
NextAggregates ==
  \/ \E c \in Calls : Requests < MaxBothCalls /\ SlowProcess(c)
  \/ Resume
  \/ \E c \in Calls, r \in OpResults : OpSettles(c, r)
  \/ \E c \in Calls : SlowProcessDone(c)
  \/ \E f \in FastCalls : Requests < MaxBothCalls /\ FastServiceData(f)
  \/ FastResume
  \/ \E f \in FastCalls, r \in OpResults : FastOpSettles(f, r)
  \/ \E f \in FastCalls : FastServiceDone(f)

SpecAggregates == InitBulkhead /\ [][NextAggregates]_vars

\* The two Bulkhead classes side by side: the class of gateway-with-bulkhead.js
\* in the bulkhead variables, the class of the combined gateway in the record
\* fastBulkhead, built with the same limits and given the same calls and the
\* same results of their operations.
InitSideBySide ==
  /\ RequestsInit
  /\ maxConcurrent \in ConcurrencyLimits
  /\ maxQueue \in QueueLimits
  /\ BulkheadInit
  /\ NoBreaker
  /\ FastObjects([maxConcurrent |-> maxConcurrent, maxQueue |-> maxQueue])
  /\ NoLoadTest

sideVars == <<now, response, trial, cbVars, allMetrics, fastCircuitBreaker,
              cancelled, opossumVars, tester>>

\* execute(fn) is called on both objects
BothEnter(c) ==
  /\ Arrives(c) /\ BulkheadEnter(c)
  /\ FastArrives(c) /\ FastBulkheadEnter(c)
  /\ UNCHANGED sideVars

\* the woken waiter of each object resumes
BothResume ==
  /\ BulkheadResume
  /\ FastBulkheadResume
  /\ UNCHANGED sideVars

\* the operation of call c settles with result r in both objects
BothSettle(c, r) ==
  /\ BulkheadSettle(c, r)
  /\ FastBulkheadSettle(c, r)
  /\ UNCHANGED sideVars

NextSideBySide ==
  \/ \E c \in FastCalls : BothEnter(c)
  \/ BothResume
  \/ \E c \in FastCalls, r \in OpResults : BothSettle(c, r)

SpecSideBySide == InitSideBySide /\ [][NextSideBySide]_vars

\* the load-test script: one LoadTester per run; the gateway it talks to is
\* seen through the replies only
InitLoadTest ==
  /\ RequestsInit
  /\ FastInit
  /\ maxConcurrent = 1
  /\ maxQueue = 0
  /\ BulkheadInit
  /\ NoBreaker
  /\ tester \in {NewLoadTester(name) : name \in TesterNames}

NextLoadTest ==
  \/ \E slowRequests \in 0..MaxTestRequests, fastRequests \in 0..MaxTestRequests :
       RunLoadTest(slowRequests, fastRequests)
  \/ \E endpoint \in Endpoints, reply \in Replies : RequestSettles(endpoint, reply)
  \/ PrintResults

SpecLoadTest == InitLoadTest /\ [][NextLoadTest]_vars

\* ------------------------------------------------------------------ claims
Waiting(c) == pos[c] \in {"queued", "woken"}

\* call c is issued in this step
Issued(c) == pos[c] = "idle" /\ pos'[c] # "idle"

\* the operation of call c settles in this step and the finally block runs
Releases(c) == pos[c] = "running" /\ pos'[c] = "bhReturned"

C2_QueueWithinLimit ==
  /\ 0 <= Len(queuedRequests)
  /\ Len(queuedRequests) <= maxQueue
  /\ maxQueue = 0 => \A c \in Calls : ~Waiting(c)

C2_Witness ==
  /\ maxQueue = 2
  /\ Len(queuedRequests) = maxQueue
  /\ metrics.rejectedRequests > 0

C4_FifoAdmission ==
  [][\A c \in Calls : (Waiting(c) /\ pos'[c] = "running") =>
       \A w \in Calls : w < c => ~Waiting(w)]_vars

C4_Witness ==
  /\ maxConcurrent = 1
  /\ activeRequests = 1
  /\ pos[2] = "running"
  /\ woken = <<3>>

\* C5: every admitted call holds exactly one slot from its start until its
\* operation returns or throws, so activeRequests counts the running calls, and
\* once every issued call has returned activeRequests = 0 and the queue is empty.
C5_ReleasedExactlyOnce ==
  /\ activeRequests = Cardinality({c \in Calls : pos[c] = "running"})
  /\ (\A c \in Calls : pos[c] \in {"idle", "bhReturned", "done"}) =>
       (activeRequests = 0 /\ queuedRequests = <<>>)

C5_Witness ==
  /\ \A c \in Calls : pos[c] = "done"
  /\ metrics.failedRequests > 0
  /\ metrics.successfulRequests > 0
  /\ metrics.totalRequests > metrics.successfulRequests + metrics.failedRequests

\* C6: each release decrements activeRequests by exactly one and, when the queue
\* is not empty, removes and wakes exactly its earliest waiter; with an empty
\* queue it wakes nobody and the queue stays empty.
C6_ReleaseWakesEarliest ==
  [][\A c \in Calls : Releases(c) =>
       /\ activeRequests' = activeRequests - 1
       /\ IF queuedRequests # <<>>
            THEN /\ queuedRequests' = Tail(queuedRequests)
                 /\ woken' = Append(woken, Head(queuedRequests))
            ELSE /\ queuedRequests' = <<>>
                 /\ woken' = woken]_vars

C6_Witness ==
  /\ woken # <<>>
  /\ queuedRequests # <<>>
  /\ \A w \in Calls : (pos[w] = "queued") => (w > woken[Len(woken)])

\* the breaker records the failure of call c in this step
RecordsFailure(c) == pos[c] = "bhReturned" /\ outcome[c] # "ok" /\ pos'[c] = "done"

\* the breaker records the success of call c in this step
RecordsSuccess(c) == pos[c] = "bhReturned" /\ outcome[c] = "ok" /\ pos'[c] = "done"

\* C7: while the breaker is Closed each failure outcome adds one to failureCount,
\* and the failure that brings it to failureThreshold, and no earlier one, opens
\* the circuit and sets nextAttempt to the time of that failure plus the reset
\* timeout; so from Closed with failureCount = 0 it takes failureThreshold
\* consecutive failures.
C7_OpensAtThreshold ==
  [][\A c \in Calls : (RecordsFailure(c) /\ state = "CLOSED") =>
       IF failureCount + 1 = failureThreshold
         THEN /\ state' = "OPEN"
              /\ nextAttempt' = now + timeout
         ELSE /\ state' = "CLOSED"
              /\ failureCount' = failureCount + 1
              /\ failureCount' < failureThreshold]_vars

C7_Witness ==
  /\ failureThreshold = 2
  /\ state = "OPEN"
  /\ failureCount = 2
  /\ cbMetrics.totalFailures = 2
  /\ cbMetrics.stateChanges = <<"OPEN">>
  /\ now > 0
  /\ nextAttempt = now + timeout

\* C8: a call made while the circuit is Open and now < nextAttempt gets the
\* circuit-open error at once: its operation is not invoked, and the bulkhead's
\* activeRequests, queue and metrics and the breaker's state, failureCount and
\* nextAttempt are unchanged.
C8_OpenRejectsWithoutEffect ==
  [][\A c \in Calls : (Issued(c) /\ state = "OPEN" /\ now < nextAttempt) =>
       /\ pos'[c] = "done"
       /\ response' = 503
       /\ cbMetrics'.totalRejections = cbMetrics.totalRejections + 1
       /\ UNCHANGED <<activeRequests, queuedRequests, woken, metrics>>
       /\ UNCHANGED <<state, failureCount, nextAttempt>>]_vars

C8_Witness ==
  /\ state = "OPEN"
  /\ now < nextAttempt
  /\ cbMetrics.totalRejections > 0
  /\ activeRequests > 0

\* C9: a call made while the circuit is Open and now >= nextAttempt (now =
\* nextAttempt included) is not rejected by the breaker: the state becomes
\* HalfOpen and the call enters the bulkhead in the same step, so its operation
\* starts no earlier than the transition.
C9_OpenAllowsAfterTimeout ==
  [][\A c \in Calls : (Issued(c) /\ state = "OPEN" /\ now >= nextAttempt) =>
       /\ state' = "HALF_OPEN"
       /\ cbMetrics'.totalRejections = cbMetrics.totalRejections
       /\ metrics'.totalRequests = metrics.totalRequests + 1
       /\ pos'[c] \in {"running", "queued", "bhReturned"}]_vars

C9_Witness ==
  /\ state = "HALF_OPEN"
  /\ now = nextAttempt
  /\ cbMetrics.stateChanges = <<"OPEN", "HALF_OPEN">>
  /\ cbMetrics.totalRejections = 0
  /\ \E c \in Calls : pos[c] = "running"

\* C10: a success recorded while the breaker is HalfOpen closes the circuit and
\* resets failureCount to 0, and a call made while the circuit is Closed is never
\* rejected by the breaker.
C10_TrialSuccessCloses ==
  [][\A c \in Calls :
       /\ (RecordsSuccess(c) /\ state = "HALF_OPEN") =>
            (state' = "CLOSED" /\ failureCount' = 0)
       /\ (Issued(c) /\ state = "CLOSED") =>
            /\ cbMetrics'.totalRejections = cbMetrics.totalRejections
            /\ metrics'.totalRequests = metrics.totalRequests + 1
            /\ state' = "CLOSED"]_vars

C10_Witness ==
  /\ state = "CLOSED"
  /\ failureCount = 0
  /\ cbMetrics.stateChanges = <<"OPEN", "HALF_OPEN", "CLOSED">>
  /\ cbMetrics.totalAttempts = 3
  /\ cbMetrics.totalRejections = 0
  /\ pos[3] = "running"

\* the operation of call c is started in this step
Starts(c) == pos[c] # "running" /\ pos'[c] = "running"

\* C11: a failing trial while the breaker is HalfOpen always moves it back to
\* Open and sets nextAttempt to now plus the reset timeout, whatever outcomes of
\* earlier admitted calls were recorded before.  Fails: a success recorded while
\* the circuit was Open has reset failureCount, and the trial's failure then
\* leaves it below failureThreshold.
C11_TrialFailureReopens ==
  [][\A c \in Calls : (c = trial /\ RecordsFailure(c) /\ state = "HALF_OPEN") =>
       (state' = "OPEN" /\ nextAttempt' = now + timeout)]_vars

\* C12: while the breaker is HalfOpen and the outcome of the trial call is not
\* yet recorded, the operation of no other call is started.  Fails: the guard
\* of execute only looks for OPEN.
C12_OneTrialOnly ==
  [][\A c \in Calls :
       (state = "HALF_OPEN" /\ trial # 0 /\ pos[trial] # "done" /\ c # trial) =>
         ~Starts(c)]_vars

\* C13: no operation is started while the breaker is Open, the operations of
\* calls that passed the guard earlier and waited in the bulkhead queue
\* included.  Fails: a waiter resumes without looking at the breaker again.
C13_NoStartWhileOpen ==
  [][\A c \in Calls : Starts(c) => state' # "OPEN"]_vars

\* C14: the breaker records exactly one outcome for each call that passed the
\* guard, when fn() has returned or thrown and not before: a failure (one more
\* totalFailures and failureCount) when it threw or timed out, a success
\* (failureCount reset, totalFailures as it was) when it returned normally; a
\* call that has its outcome recorded gets no second one, and no step that
\* records no outcome touches the failure counters.
C14_OneOutcomePerCall ==
  [][/\ \A c \in Calls :
          /\ pos[c] = "done" => pos'[c] = "done"
          /\ (pos[c] \notin {"idle", "done"} /\ pos'[c] = "done") =>
                /\ pos[c] = "bhReturned"
                /\ \A d \in Calls \ {c} : pos'[d] = pos[d]
                /\ IF outcome[c] = "ok"
                     THEN /\ failureCount' = 0
                          /\ cbMetrics'.totalFailures = cbMetrics.totalFailures
                     ELSE /\ failureCount' = failureCount + 1
                          /\ cbMetrics'.totalFailures = cbMetrics.totalFailures + 1
     /\ (\A c \in Calls : ~(pos[c] = "bhReturned" /\ pos'[c] = "done")) =>
          /\ failureCount' = failureCount
          /\ cbMetrics'.totalFailures = cbMetrics.totalFailures]_vars

C14_Witness ==
  /\ \A c \in Calls : c <= 4 => pos[c] = "done"
  /\ cbMetrics.totalAttempts = 4
  /\ cbMetrics.totalRejections = 0
  /\ cbMetrics.totalFailures = 2
  /\ metrics.successfulRequests = 2
  /\ response = 504

\* C15: a call that the bulkhead rejected with its capacity error adds nothing
\* to the breaker's failureCount and totalFailures and leaves the circuit state
\* as it was.  Fails: the bulkhead throws inside fn(), and execute's catch block
\* calls onFailure for every error.
C15_BulkheadRejectionNotCounted ==
  [][\A c \in Calls : (RecordsFailure(c) /\ outcome[c] = "bulkhead") =>
       /\ UNCHANGED <<state, failureCount>>
       /\ cbMetrics'.totalFailures = cbMetrics.totalFailures]_vars

\* C16: the circuit state changes only from Closed to Open, from Open to
\* HalfOpen, from HalfOpen to Closed and from HalfOpen to Open; never from
\* Closed to HalfOpen, never from Open to Closed.
C16_TransitionsAllowed ==
  [][state' # state =>
       <<state, state'>> \in {<<"CLOSED", "OPEN">>, <<"OPEN", "HALF_OPEN">>,
                              <<"HALF_OPEN", "CLOSED">>, <<"HALF_OPEN", "OPEN">>}]_vars

C16_Witness ==
  cbMetrics.stateChanges = <<"OPEN", "HALF_OPEN", "OPEN", "HALF_OPEN", "CLOSED">>

\* C17: changeState is never called with the state the breaker is already in:
\* every stateChanges entry is a change of state.  Fails: the failure of a call
\* still in flight when the circuit opened calls changeState('OPEN') again.
C17_NoSelfTransition ==
  [][cbMetrics'.stateChanges # cbMetrics.stateChanges => state' # state]_vars

\* C18: whenever the circuit is Open, nextAttempt is the time at which it
\* entered Open plus the reset timeout: it is set on entering Open and stays
\* while the circuit is Open.  Fails through C17: a failure recorded while Open
\* sets nextAttempt again.
C18_NextAttemptFromOpening ==
  [][state' = "OPEN" =>
       IF state = "OPEN"
         THEN nextAttempt' = nextAttempt
         ELSE nextAttempt' = now + timeout]_vars

\* C19: a success recorded while the breaker is Closed resets failureCount to 0
\* and leaves it Closed, so failures with a success between them, each run
\* shorter than failureThreshold, do not open the circuit.
C19_SuccessResetsCount ==
  [][\A c \in Calls : (RecordsSuccess(c) /\ state = "CLOSED") =>
       (failureCount' = 0 /\ state' = "CLOSED")]_vars

C19_Witness ==
  /\ failureThreshold = 2
  /\ state = "CLOSED"
  /\ cbMetrics.stateChanges = <<>>
  /\ cbMetrics.totalFailures = 2
  /\ failureCount = 1

\* the state of the slow-service bulkhead and breaker and of the calls on them
slowVars == <<pos, outcome, trial, bhVars, cbVars>>

\* fast-data call f is issued in this step
FastIssued(f) == fastPos[f] = "idle" /\ fastPos'[f] # "idle"

\* C20: the resources are isolated: no step of a call on the slow-service
\* bulkhead or breaker changes the fast-service bulkhead, breaker or calls,
\* so what happens to a fast-data call when it is made is decided by the
\* fast-service objects alone: it is circuit-blocked only if fastCircuitBreaker
\* is Open, rejected only if fastBulkhead is at capacity, queued only if
\* fastBulkhead has no free slot, whatever the state of the slow-service objects.
C20_ResourcesIsolated ==
  [][/\ slowVars' # slowVars => UNCHANGED fastVars
     /\ \A f \in FastCalls : FastIssued(f) =>
          /\ fastPos'[f] = "done" => fastCircuitBreaker.state = "OPEN"
          /\ fastOutcome'[f] = "bulkhead" => FullOf(fastBulkhead)
          /\ fastPos'[f] = "queued" => BusyOf(fastBulkhead)
          /\ (fastCircuitBreaker.state = "CLOSED" /\ ~BusyOf(fastBulkhead)) =>
                fastPos'[f] = "running"]_vars

\* the slow service is saturated and its circuit open while a fast-data call runs
C20_Witness ==
  /\ state = "OPEN"
  /\ AtCapacity
  /\ \E c \in Calls : pos[c] = "running"
  /\ fastCircuitBreaker.state = "CLOSED"
  /\ fastCircuitBreaker.metrics.totalAttempts = 1
  /\ fastPos[1] = "running"

\* four calls have been made to a bulkhead of 2 slots and 1 queue place, and no
\* operation has completed yet
FourCallsNoneCompleted ==
  /\ maxConcurrent = 2
  /\ maxQueue = 1
  /\ pos[4] # "idle"
  /\ metrics.successfulRequests + metrics.failedRequests = 0

\* C21: with maxConcurrent = 2 and maxQueue = 1, when four calls arrive before
\* any operation completes, calls 1 and 2 run, call 3 is queued and call 4 is
\* rejected with the capacity error; the first of the two operations to
\* complete wakes call 3, which then runs its operation and returns its result.
C21_FourConcurrentCalls ==
  /\ [](FourCallsNoneCompleted =>
         /\ pos[1] = "running" /\ pos[2] = "running"
         /\ pos[3] = "queued" /\ queuedRequests = <<3>>
         /\ pos[4] \in {"bhReturned", "done"}
         /\ pos[4] = "bhReturned" => outcome[4] = "bulkhead"
         /\ metrics.rejectedRequests >= 1)
  /\ [][\A c \in {1, 2} : (FourCallsNoneCompleted /\ Releases(c)) =>
           (pos'[3] = "woken" /\ woken' = <<3>>)]_vars
  /\ FourCallsNoneCompleted ~> (pos[3] = "running")
  /\ FourCallsNoneCompleted ~> (pos[3] = "bhReturned" /\ outcome[3] \in OpResults)

C21_Witness ==
  /\ maxConcurrent = 2
  /\ maxQueue = 1
  /\ metrics.rejectedRequests = 1
  /\ pos[4] = "done"
  /\ pos[3] = "bhReturned"
  /\ outcome[3] = "ok"
  /\ metrics.successfulRequests + metrics.failedRequests = 2

\* C22: provided every started operation completes, every queued caller is
\* eventually admitted and every execute call eventually returns a result or
\* an error: no waiter stays in the queue forever.
\* A call never goes back to "idle" and leaves the queue only through being
\* woken and admitted, so it is enough that whenever some call is under way a
\* state follows in which none is and the queue is empty.
C22_EveryCallReturns ==
  /\ [][\A c \in Calls :
          /\ pos[c] # "idle" => pos'[c] # "idle"
          /\ pos[c] = "queued" => pos'[c] \in {"queued", "woken"}
          /\ pos[c] = "woken" => pos'[c] \in {"woken", "running"}]_vars
  /\ (\E c \in Calls : pos[c] \notin {"idle", "done"}) ~>
       ((\A c \in Calls : pos[c] \in {"idle", "done"}) /\ queuedRequests = <<>>)

C22_Witness ==
  /\ maxConcurrent = 1
  /\ maxQueue = 2
  /\ pos[1] = "done" /\ pos[2] = "done" /\ pos[3] = "done"
  /\ metrics.rejectedRequests = 0
  /\ metrics.failedRequests = 3

\* C23: the gate never retries: the operation of one call is started at most
\* once (a call whose operation was started is never queued, woken or started
\* again), its failure is rethrown by the bulkhead as it is, recorded by the
\* breaker and answered to the client as an error status.
C23_NeverRetries ==
  [][\A c \in Calls :
       /\ Starts(c) => pos[c] \in {"idle", "woken"}
       /\ pos[c] \in {"running", "bhReturned", "done"} =>
            pos'[c] \in {pos[c], IF pos[c] = "running" THEN "bhReturned" ELSE "done"}
       /\ \A r \in OpResults : (Releases(c) /\ outcome'[c] = r /\ r # "ok") =>
            metrics'.failedRequests = metrics.failedRequests + 1
       /\ RecordsFailure(c) =>
            /\ cbMetrics'.totalFailures = cbMetrics.totalFailures + 1
            /\ response' \in {429, 503, 504}
            /\ metrics'.totalRequests = metrics.totalRequests]_vars

C23_Witness ==
  /\ pos[1] = "done"
  /\ pos[2] = "idle"
  /\ metrics.totalRequests = 1
  /\ metrics.failedRequests = 1
  /\ cbMetrics.totalFailures = 1
  /\ response = 504

\* the handler of fast-data call f answers in this step, after execute returned
FastAnswers(f) == fastPos[f] = "bhReturned" /\ fastPos'[f] = "done"

\* C24: on every endpoint of the combined gateway a bulkhead capacity rejection
\* is answered 429, an open circuit 503, an upstream timeout (ECONNABORTED)
\* 504 and any other upstream failure 503.  Fails on /gateway/fast-data,
\* whose catch block has no ECONNABORTED branch.
C24_StatusMapping ==
  [][LET status(o) == CASE o = "bulkhead" -> 429
                        [] o = "circuit" -> 503
                        [] o = "timeout" -> 504
                        [] o = "error" -> 503
                        [] OTHER -> 200
     IN /\ \A c \in Calls :
             /\ (pos[c] = "bhReturned" /\ pos'[c] = "done") =>
                   response' = status(outcome[c])
             /\ (Issued(c) /\ pos'[c] = "done") => response' = status("circuit")
        /\ \A f \in FastCalls :
             /\ FastAnswers(f) => response' = status(fastOutcome[f])
             /\ (FastIssued(f) /\ fastPos'[f] = "done") =>
                   response' = status("circuit")]_vars

\* C25: totalRequests counts every execute call, rejected ones included, and
\* each finished call adds one to exactly one of successfulRequests,
\* failedRequests and rejectedRequests: in every reachable state totalRequests
\* is their sum plus the number of calls running or waiting.
C25_MetricsBalance ==
  metrics.totalRequests =
    metrics.successfulRequests + metrics.failedRequests + metrics.rejectedRequests
      + Cardinality({c \in Calls : pos[c] = "running" \/ Waiting(c)})

C25_Witness ==
  /\ metrics.successfulRequests > 0
  /\ metrics.failedRequests > 0
  /\ metrics.rejectedRequests > 0
  /\ \E c \in Calls : pos[c] = "running"
  /\ \E c \in Calls : pos[c] = "queued"

\* c stops waiting in this step
GivesUp(c) == c \notin cancelled /\ c \in cancelled'

\* C26: a queued caller can be cancelled before it is dequeued: when it stops
\* waiting it is removed from the queue, the other waiters keep their order,
\* and it never takes a slot.  Fails: the class has no way to take a waiter out
\* of the queue; the caller stays queued, is woken in its turn and runs.
C26_CancelRemovesWaiter ==
  [][\A c \in Calls :
       /\ GivesUp(c) =>
            /\ queuedRequests' = SelectSeq(queuedRequests, LAMBDA w : w # c)
            /\ activeRequests' = activeRequests
       /\ c \in cancelled => pos'[c] # "running"]_vars

\* C27: in the opossum-based gateway a request made while the circuit is open
\* makes no HTTP call to the service and is answered with the fallback body as
\* an HTTP 503 error response.  Fails: fire() returns the fallback, so the
\* handler's try branch answers it with res.json, status 200.
C27_OpenAnswersFallback503 ==
  [][\A u \in UserCalls :
       /\ (userPos[u] = "idle" /\ userPos'[u] # "idle" /\ userBreaker.state = "open") =>
            (httpCalls' = httpCalls /\ userFire'[u] = "open")
       /\ (userPos[u] = "fired" /\ userFire[u] = "open" /\ userPos'[u] = "done") =>
            userResponse' = [status |-> 503, body |-> "fallback"]]_vars

\* C28: in every reachable state, also when calls admitted while Closed
\* complete after the circuit opened, state in {Open, HalfOpen} implies
\* failureCount >= failureThreshold.  Fails: onSuccess resets failureCount in
\* every state, an open one included.
C28_OpenKeepsCount ==
  state \in {"OPEN", "HALF_OPEN"} => failureCount >= failureThreshold

\* C29: in every reachable state, state = Closed implies
\* failureCount < failureThreshold.
C29_ClosedBelowThreshold ==
  state = "CLOSED" => failureCount < failureThreshold

C29_Witness ==
  /\ failureThreshold = 2
  /\ state = "CLOSED"
  /\ failureCount = 1
  /\ cbMetrics.stateChanges = <<"OPEN", "HALF_OPEN", "CLOSED">>

\* C30: an outcome recorded while the circuit is Open, of a call admitted
\* before it opened, leaves state and nextAttempt unchanged: a late failure
\* does not restart the reset timer, a late success does not alter the state.
\* Fails through C17: onFailure runs its opening branch again.
C30_LateOutcomeLeavesOpen ==
  [][\A c \in Calls :
       ((RecordsFailure(c) \/ RecordsSuccess(c)) /\ state = "OPEN") =>
         UNCHANGED <<state, nextAttempt>>]_vars

\* C31: the breaker goes from HalfOpen to Closed only by the success of a trial
\* call, one that passed the guard at or after the change from Open to
\* HalfOpen (calls are numbered in arrival order); the success of a call
\* admitted before the circuit opened never closes it.  Fails: onSuccess closes
\* a half-open circuit for whichever call returns.
C31_OnlyTrialCloses ==
  [][(state = "HALF_OPEN" /\ state' = "CLOSED") =>
       \E c \in Calls : RecordsSuccess(c) /\ c >= trial]_vars

InProgress == {c \in Calls : pos[c] \notin {"idle", "done"}}

\* successes the breaker has recorded: the operations that returned normally,
\* less those whose return has not reached the breaker's continuation yet
RecordedSuccesses ==
  metrics.successfulRequests
    - Cardinality({c \in Calls : pos[c] = "bhReturned" /\ outcome[c] = "ok"})

\* C33: the breaker's counters are consistent in every reachable state:
\* totalAttempts counts every execute call, circuit-open rejections included;
\* totalRejections is incremented by circuit-open rejections only; and
\* totalAttempts = totalRejections + totalFailures + recorded successes +
\* calls in progress.
C33_BreakerCounters ==
  /\ [](/\ cbMetrics.totalAttempts = Cardinality({c \in Calls : pos[c] # "idle"})
        /\ cbMetrics.totalAttempts =
             cbMetrics.totalRejections + cbMetrics.totalFailures
               + RecordedSuccesses + Cardinality(InProgress))
  /\ [][cbMetrics'.totalRejections # cbMetrics.totalRejections =>
          /\ cbMetrics'.totalRejections = cbMetrics.totalRejections + 1
          /\ state = "OPEN" /\ now < nextAttempt
          /\ \E c \in Calls : Issued(c) /\ pos'[c] = "done"]_vars

C33_Witness ==
  /\ cbMetrics.totalRejections > 0
  /\ cbMetrics.totalFailures > 0
  /\ RecordedSuccesses > 0
  /\ InProgress # {}
  /\ cbMetrics.totalAttempts = 4

\* C34: a response-time sample is recorded for successes only: in every
\* reachable state responseTimes holds as many samples as successfulRequests
\* counts, and a call that failed or was rejected leaves responseTimes and
\* averageResponseTime as they were.
C34_SamplesForSuccessOnly ==
  /\ [](/\ metrics.responseTimes = metrics.successfulRequests
        /\ metrics.averageResponseTime = metrics.responseTimes)
  /\ [][\A c \in Calls :
          (pos[c] # "bhReturned" /\ pos'[c] = "bhReturned" /\ outcome'[c] # "ok") =>
            /\ metrics'.responseTimes = metrics.responseTimes
            /\ metrics'.averageResponseTime = metrics.averageResponseTime]_vars

C34_Witness ==
  /\ metrics.successfulRequests = 2
  /\ metrics.failedRequests > 0
  /\ metrics.rejectedRequests > 0
  /\ metrics.responseTimes = 2

\* no handler of gateway-with-bulkhead.js is between its first statement and
\* its response
Quiescent ==
  /\ \A c \in Calls : pos[c] \in {"idle", "done"}
  /\ \A f \in FastCalls : fastPos[f] \in {"idle", "done"}

\* C35: in every state where no handler is mid-execution, the aggregates of the
\* bulkhead gateway agree with their parts: allMetrics.totalRequests is
\* slowServiceRequests + fastServiceRequests, and allMetrics.bulkheadRejections
\* is the sum of the two bulkheads' rejectedRequests.
C35_AggregatesAgree ==
  Quiescent =>
    /\ allMetrics.totalRequests =
         allMetrics.slowServiceRequests + allMetrics.fastServiceRequests
    /\ allMetrics.bulkheadRejections =
         metrics.rejectedRequests + fastBulkhead.metrics.rejectedRequests

C35_Witness ==
  /\ Quiescent
  /\ fastBulkhead.metrics.rejectedRequests = 1
  /\ allMetrics.fastServiceFailure = 2
  /\ allMetrics.slowServiceSuccess = 1

\* C36: the Bulkhead class of the bulkhead-only gateway and the Bulkhead class
\* of the combined gateway are equivalent: given the same arrivals and the same
\* operation results they admit, queue and reject the same calls and keep
\* equal activeRequests, queues and metric counters.
C36_BulkheadsEquivalent ==
  /\ \A c \in FastCalls : pos[c] = fastPos[c] /\ outcome[c] = fastOutcome[c]
  /\ activeRequests = fastBulkhead.activeRequests
  /\ queuedRequests = fastBulkhead.queuedRequests
  /\ woken = fastBulkhead.woken
  /\ metrics = fastBulkhead.metrics

C36_Witness ==
  /\ fastOutcome[3] = "bulkhead"
  /\ fastPos[2] = "running"
  /\ fastBulkhead.metrics.successfulRequests = 1
  /\ metrics.rejectedRequests = 1

\* C37: the load-test script reports 'SUCCESS: Fast service remains responsive'
\* for the WITH BULKHEAD run only when every fast-service request completed
\* successfully: never when one of them failed, timed out or was rejected.
\* Fails: the test printAnalysis makes compares success with times.length, and
\* sendRequest changes the two together.
C37_SuccessOnlyIfAllFastSucceeded ==
  (tester.name = WithBulkheadName /\ SuccessLine \in tester.report) =>
    /\ tester.results.fastService.failure = 0
    /\ tester.results.fastService.timeout = 0
    /\ tester.results.fastService.rejection = 0

====
